---- MODULE Spec2Model ----
(***************************************************************************)
(* Model of the SEO auditor service (main.py, helpers.py,                  *)
(* helpers_schema.py).  The service is a set of stateless HTTP handlers;   *)
(* the state is the invocation in flight: the request, the handler's       *)
(* position, the outbound calls it has made with their outcomes, and the   *)
(* response.  Python strings are sequences of one-character strings, so    *)
(* that lower(), strip(), split(), startswith(), slicing and "in" are      *)
(* computed character by character as the code computes them.              *)
(***************************************************************************)
EXTENDS Integers, Sequences, FiniteSets

VARIABLES pc, req, calls, resp

vars == <<pc, req, calls, resp>>

(***************************************************************************)
(* Characters and the str methods the code uses                            *)
(***************************************************************************)
UpperCase == <<"A","B","C","D","E","F","G","H","I","J","K","L","M",
               "N","O","P","Q","R","S","T","U","V","W","X","Y","Z">>

LowerCase == <<"a","b","c","d","e","f","g","h","i","j","k","l","m",
               "n","o","p","q","r","s","t","u","v","w","x","y","z">>

Digits == {"0","1","2","3","4","5","6","7","8","9"}

Letters == {LowerCase[i] : i \in 1..Len(LowerCase)}

Capitals == {UpperCase[i] : i \in 1..Len(UpperCase)}

\* the lower-case letter of every capital
LowerOf ==
    [c \in Capitals |-> LowerCase[CHOOSE i \in 1..Len(UpperCase) : UpperCase[i] = c]]

\* str.lower() on one character
LowerChar(c) == IF c \in Capitals THEN LowerOf[c] ELSE c

\* str.lower()
Lower(s) == [i \in 1..Len(s) |-> LowerChar(s[i])]

\* the class [a-z0-9] of normalize
AlnumChars == Letters \cup Digits

IsAlnum(c) == c \in AlnumChars

\* the class \w of the word count
WordChars == Letters \cup Capitals \cup Digits \cup {"_"}

IsWordChar(c) == c \in WordChars

\* the class \s, and what str.strip() removes
IsSpace(c) == c \in {" ", "\t"}

\* sub in s
Contains(sub, s) ==
    \E i \in 0..(Len(s) - Len(sub)) : SubSeq(s, i + 1, i + Len(sub)) = sub

\* s.startswith(p)
StartsWith(s, p) == Len(p) <= Len(s) /\ SubSeq(s, 1, Len(p)) = p

\* s[:n]
Slice(s, n) == SubSeq(s, 1, IF n < Len(s) THEN n ELSE Len(s))

\* the first index from lo on that holds no white space (Len(s) + 1 if none),
\* and the last index up to hi that holds none (0 if none)
RECURSIVE LeftEdge(_, _)
LeftEdge(s, lo) ==
    IF lo > Len(s) \/ ~IsSpace(s[lo]) THEN lo ELSE LeftEdge(s, lo + 1)

RECURSIVE RightEdge(_, _)
RightEdge(s, hi) ==
    IF hi = 0 \/ ~IsSpace(s[hi]) THEN hi ELSE RightEdge(s, hi - 1)

\* s.strip()
Strip(s) == SubSeq(s, LeftEdge(s, 1), RightEdge(s, Len(s)))

\* s.split(sep) for a one-character separator
RECURSIVE Split(_, _)
Split(s, sep) ==
    LET at == {i \in 1..Len(s) : s[i] = sep}
    IN  IF at = {} THEN <<s>>
        ELSE LET i == CHOOSE k \in at : \A j \in at : k <= j
             IN  <<SubSeq(s, 1, i - 1)>> \o Split(SubSeq(s, i + 1, Len(s)), sep)

\* sep.join(parts)
RECURSIVE Join(_, _)
Join(parts, sep) ==
    IF Len(parts) = 0 THEN <<>>
    ELSE IF Len(parts) = 1 THEN parts[1]
    ELSE parts[1] \o sep \o Join(Tail(parts), sep)

\* len(re.findall(r"\w+", text)): the number of maximal runs of word characters
WordCount(text) ==
    Cardinality({i \in 1..Len(text) :
                    IsWordChar(text[i]) /\ (i = 1 \/ ~IsWordChar(text[i - 1]))})

(***************************************************************************)
(* URLs.  A URL is what urllib.parse.urlparse splits it into: scheme, host *)
(* (netloc) and path; the string the client sent is UrlString.  A relative *)
(* reference has an empty scheme and an empty host.                        *)
(***************************************************************************)
Url(scheme, host, path) == [scheme |-> scheme, host |-> host, path |-> path]

UrlString(u) ==
    (IF u.scheme = <<>> THEN <<>> ELSE u.scheme \o <<":">>)
    \o (IF u.host = <<>> THEN <<>> ELSE <<"/", "/">> \o u.host)
    \o u.path

\* urlparse(url).hostname or "": the host, lower-cased
Hostname(u) == Lower(u.host)

\* the alternatives of the pattern ^(www|m|web)\.
SubdomainPrefixes == {<<"w","w","w",".">>, <<"m",".">>, <<"w","e","b",".">>}

\* re.sub(r"^(www|m|web)\.", "", host): at most one prefix is removed
StripSubdomain(host) ==
    IF \E p \in SubdomainPrefixes : StartsWith(host, p)
    THEN LET p == CHOOSE q \in SubdomainPrefixes : StartsWith(host, q)
         IN  SubSeq(host, Len(p) + 1, Len(host))
    ELSE host

\* main.py 9-14
short_domain(u) ==
    LET host  == StripSubdomain(Hostname(u))
        parts == Split(host, ".")
    IN  IF Len(parts) >= 2
        THEN Join(SubSeq(parts, Len(parts) - 1, Len(parts)), <<".">>)
        ELSE host

\* a faulty variant: the text is not lower-cased before the filter
normalize_NoLower(text) == SelectSeq(text, IsAlnum)

normalize(text) == SelectSeq(Lower(text), IsAlnum)

(***************************************************************************)
(* The parsed document.  BeautifulSoup is a library: the model starts from *)
(* what the handler asks of the soup.  A document is                       *)
(*   title   <<>> (no <title>, or one without a string) or <<text>>        *)
(*   meta    <<>> (no <meta name="description">) or <<content>>            *)
(*   texts   the h1 and paragraph elements in document order, [tag, text]  *)
(*   anchors the href of every <a href>, in document order                 *)
(*   imgs    for every <img>, <<>> (no alt attribute) or <<alt>>           *)
(***************************************************************************)
Doc(title, meta, texts, anchors, imgs) ==
    [title |-> title, meta |-> meta, texts |-> texts,
     anchors |-> anchors, imgs |-> imgs]

\* soup.title.string.strip() if soup.title and soup.title.string else ""
TitleOf(doc) == IF doc.title = <<>> THEN <<>> ELSE Strip(doc.title[1])

\* meta_tag.get("content", "").strip() if meta_tag else ""
MetaDescOf(doc) == IF doc.meta = <<>> THEN <<>> ELSE Strip(doc.meta[1])

\* [h.get_text(" ", strip=True) for h in soup.find_all("h1")]
H1Texts(doc) ==
    LET h1 == SelectSeq(doc.texts, LAMBDA n : n.tag = "h1")
    IN  [i \in 1..Len(h1) |-> Strip(h1[i].text)]

\* soup.get_text(" ", strip=True): the stripped, non-empty strings of the
\* document, the title's first, joined by one space
TextOf(doc) ==
    LET raw      == (IF doc.title = <<>> THEN <<>> ELSE <<doc.title[1]>>)
                    \o [i \in 1..Len(doc.texts) |-> doc.texts[i].text]
        stripped == [i \in 1..Len(raw) |-> Strip(raw[i])]
    IN  Join(SelectSeq(stripped, LAMBDA t : t # <<>>), <<" ">>)

\* the number of elements of a sequence that satisfy a test
Count(seq, Test(_)) == Len(SelectSeq(seq, Test))

\* main.py 74-80
InternalLinks(doc, url) ==
    Count(doc.anchors, LAMBDA a : short_domain(a) = short_domain(url))

\* main.py 81-88
ExternalLinks(doc, url) ==
    Count(doc.anchors,
          LAMBDA a : short_domain(a) \notin {<<>>, short_domain(url)})

\* a faulty variant: only the images that carry an alt attribute are counted
ImagesTotal_WithAlt(doc) == Count(doc.imgs, LAMBDA alt : alt # <<>>)

\* len(soup.find_all("img"))
ImagesTotal(doc) == Len(doc.imgs)

\* sum(1 for img in soup.find_all("img") if not img.get("alt"))
ImagesMissingAlt(doc) ==
    Count(doc.imgs, LAMBDA alt : alt = <<>> \/ alt[1] = <<>>)

\* the thresholds of the checklist
MinWords == 300

MinInternalLinks == 3

FirstChars == 150

\* a faulty variant: halves go up
Round_HalfUp(num, den) == (2 * num + den) \div (2 * den)

\* round() of the rational num/den, as Python 3 rounds: halves go to the even
\* neighbour
Round(num, den) ==
    LET q == num \div den
        r == num % den
    IN  IF 2 * r < den THEN q
        ELSE IF 2 * r > den THEN q + 1
        ELSE IF q % 2 = 0 THEN q ELSE q + 1

\* main.py 57-94: the report before the score
Features(doc, url, primary_keyword) ==
    LET pk        == Lower(primary_keyword)
        title     == TitleOf(doc)
        meta_desc == MetaDescOf(doc)
        h1s       == H1Texts(doc)
        text      == TextOf(doc)
    IN  [title |-> [present     |-> title # <<>>,
                    length      |-> Len(title),
                    includes_kw |-> Contains(pk, Lower(title))],
         meta  |-> [present     |-> meta_desc # <<>>,
                    length      |-> Len(meta_desc),
                    includes_kw |-> Contains(pk, Lower(meta_desc))],
         h1    |-> [count       |-> Len(h1s),
                    includes_kw |-> Contains(pk, IF h1s # <<>> THEN Lower(h1s[1])
                                                 ELSE <<>>)],
         word_count       |-> WordCount(text),
         kw_in_first_150  |-> Contains(pk, Lower(Slice(text, FirstChars))),
         internal_links   |-> InternalLinks(doc, url),
         external_links   |-> ExternalLinks(doc, url),
         images |-> [total       |-> ImagesTotal(doc),
                     missing_alt |-> ImagesMissingAlt(doc)],
         url_contains_kw  |-> Contains(normalize(pk), normalize(UrlString(url)))]

\* main.py 97-106
PassFlags(report) ==
    << report.title.present /\ report.title.includes_kw,
       report.meta.present /\ report.meta.includes_kw,
       report.h1.count = 1 /\ report.h1.includes_kw,
       report.kw_in_first_150,
       report.word_count >= MinWords,
       report.internal_links >= MinInternalLinks,
       report.images.missing_alt = 0,
       report.url_contains_kw >>

\* main.py 107-108: round(sum(pass_flags) / total_checks * 100)
HealthScore(pass_flags) ==
    LET total_checks == Len(pass_flags)
        passed       == Count(pass_flags, LAMBDA f : f)
    IN  Round(passed * 100, total_checks)

\* main.py 45-110: the report analyze_seo returns
analyze_seo(doc, url, primary_keyword) ==
    LET report == Features(doc, url, primary_keyword)
    IN  [kind |-> "report", report |-> report,
         health_score |-> HealthScore(PassFlags(report))]

(***************************************************************************)
(* helpers.py: the robots.txt matcher.  The text is the sequence of lines  *)
(* robots_text.splitlines() gives.                                         *)
(***************************************************************************)
DisallowWord == <<"d","i","s","a","l","l","o","w",":">>

\* re.match(r"(?i)disallow:\s*(.*)", line): the line begins with the word, in
\* any case; nothing may come before it
IsDisallow(line) ==
    /\ Len(line) >= Len(DisallowWord)
    /\ Lower(SubSeq(line, 1, Len(DisallowWord))) = DisallowWord

\* m.group(1).strip(): \s* and strip() take the white space off both ends
DisallowValue(line) == Strip(SubSeq(line, Len(DisallowWord) + 1, Len(line)))

\* a faulty variant: the raw value is recorded
RecordedRule_Raw(rule) == rule

\* rule or "/"
RecordedRule(rule) == IF rule = <<>> THEN <<"/">> ELSE rule

\* a faulty variant: the path is tested against the recorded rule
RuleBlocks_Recorded(target_path, rule) == StartsWith(target_path, RecordedRule(rule))

\* target_path.startswith(rule): the test is on the value as written
RuleBlocks(target_path, rule) == StartsWith(target_path, rule)

\* helpers.py 15-28
parse_robots(lines, target_path) ==
    LET matched == SelectSeq(lines, IsDisallow)
        values  == [i \in 1..Len(matched) |-> DisallowValue(matched[i])]
    IN  [kind    |-> "robots",
         blocked |-> \E i \in 1..Len(values) : RuleBlocks(target_path, values[i]),
         rules   |-> [i \in 1..Len(values) |-> RecordedRule(values[i])]]

(***************************************************************************)
(* The inputs the requests are drawn from                                  *)
(***************************************************************************)
\* the most <a href>, <img> and text elements of a document
MaxAnchors == 3

MaxImgs == 2

MaxTexts == 2

\* the sequences over S of length at most n
SeqsUpTo(S, n) == UNION {[1..k -> S] : k \in 0..n}

S_http == <<"h","t","t","p">>

S_https == <<"h","t","t","p","s">>

RedShoes == <<"R","e","d"," ","S","h","o","e","s">>

Hats == <<"H","a","t","s">>

\* "a a a ... a": n words of filler
Filler(n) == [i \in 1..(2 * n - 1) |-> IF i % 2 = 1 THEN "a" ELSE " "]

\* the primary keywords
Keywords == {RedShoes, Lower(Hats)}

\* the pages that are audited: https://example.com/Red-Shoes,
\* http://m.com/hats, and the host-less /page
PageUrls ==
    {Url(S_https, <<"e","x","a","m","p","l","e",".","c","o","m">>, <<"/","R","e","d","-","S","h","o","e","s">>),
     Url(S_http, <<"m",".","c","o","m">>, <<"/","h","a","t","s">>),
     Url(<<>>, <<>>, <<"/","p","a","g","e">>)}

\* the links of a page: /contact, http://www.example.com/a and
\* https://www.m.com/x
Hrefs ==
    {Url(<<>>, <<>>, <<"/","c","o","n","t","a","c","t">>),
     Url(S_http, <<"w","w","w",".","e","x","a","m","p","l","e",".","c","o","m">>, <<"/","a">>),
     Url(S_https, <<"w","w","w",".","m",".","c","o","m">>, <<"/","x">>)}

Titles == {<<>>, <<RedShoes>>}

Metas == {<<>>, <<<<"B","u","y"," ","r","e","d"," ","s","h","o","e","s"," ">>>>}

TextNodes ==
    {[tag |-> "h1", text |-> RedShoes],
     [tag |-> "h1", text |-> Hats],
     [tag |-> "p", text |-> Filler(MinWords)]}

Alts == {<<>>, <<<<"p","i","c">>>>}

\* <html><body></body></html>
EmptyDoc == Doc(<<>>, <<>>, <<>>, <<>>, <<>>)

\* a page that passes every check on its text, and one that passes every
\* check on its links and images
FullText ==
    [title |-> <<RedShoes>>, meta |-> <<<<"B","u","y"," ","r","e","d"," ","s","h","o","e","s"," ">>>>,
     texts |-> <<[tag |-> "h1", text |-> RedShoes],
                 [tag |-> "p", text |-> Filler(MinWords)]>>]

FullLinks ==
    [anchors |-> [i \in 1..MinInternalLinks |->
                     Url(S_http, <<"w","w","w",".","e","x","a","m","p","l","e",".","c","o","m">>, <<"/","a">>)],
     imgs    |-> <<<<<<"p","i","c">>>>>>]

\* The documents: every text part with no link and with the full links, and
\* every link part with no text and with the full text.
Docs ==
    {Doc(t, m, x, l.anchors, l.imgs) :
        t \in Titles, m \in Metas, x \in SeqsUpTo(TextNodes, MaxTexts),
        l \in {[anchors |-> <<>>, imgs |-> <<>>], FullLinks}}
    \cup
    {Doc(f.title, f.meta, f.texts, a, i) :
        f \in {[title |-> <<>>, meta |-> <<>>, texts |-> <<>>], FullText},
        a \in SeqsUpTo(Hrefs, MaxAnchors), i \in SeqsUpTo(Alts, MaxImgs)}

\* the most lines of a robots.txt
MaxLines == 3

\* User-agent: *  /  Disallow: /admin  /  Disallow: /private/  /  an empty
\* value in capitals, followed by blanks  /  a rule after a leading blank
RobotsLines ==
    {<<"U","s","e","r","-","a","g","e","n","t",":"," ","*">>,
     <<"D","i","s","a","l","l","o","w",":"," ","/","a","d","m","i","n">>,
     <<"D","i","s","a","l","l","o","w",":"," ","/","p","r","i","v","a","t","e","/">>,
     <<"D","I","S","A","L","L","O","W",":"," "," ">>,
     <<" ","D","i","s","a","l","l","o","w",":"," ","/">>}

RobotsTexts == SeqsUpTo(RobotsLines, MaxLines)

\* the URLs given to /robots-check: with no path, with the paths
\* /admin/settings and /public, and the host-less /page
RobotsUrls ==
    {Url(S_http, <<"e","x","a","m","p","l","e",".","c","o","m">>, <<>>),
     Url(S_http, <<"e","x","a","m","p","l","e",".","c","o","m">>, <<"/","a","d","m","i","n","/","s","e","t","t","i","n","g","s">>),
     Url(S_http, <<"e","x","a","m","p","l","e",".","c","o","m">>, <<"/","p","u","b","l","i","c">>),
     Url(<<>>, <<>>, <<"/","p","a","g","e">>)}

\* the pages the network serves with a 2xx status, and the body of an error
\* status
FullDoc ==
    Doc(FullText.title, FullText.meta, FullText.texts, FullLinks.anchors,
        FullLinks.imgs)

ServedDocs == {EmptyDoc, FullDoc}

ErrorDoc == Doc(<<<<"N","o","t"," ","F","o","u","n","d">>>>, <<>>, <<>>, <<>>, <<>>)

\* PSI_API_KEY: unset (os.getenv gives None), set to the empty string, set
ApiKeys == {"unset", "", "key"}

\* the metrics of a PageSpeed answer, with and without the experimental INP
PsiData ==
    {[lcp_ms |-> 2400, cls |-> "0.02", inp_ms |-> <<180>>, score |-> 90],
     [lcp_ms |-> 2400, cls |-> "0.02", inp_ms |-> <<>>, score |-> 90]}

(***************************************************************************)
(* The service.  pc is the handler's position: "idle" (no invocation),     *)
(* "wait" (blocked in an outbound call) or "done" (the response is ready). *)
(* calls is the invocation's outbound calls in the order they were made,   *)
(* each with its result: "pending", "ok" (a 2xx answer; for PageSpeed a    *)
(* 200), "status" (an answer with an error status; for PageSpeed any other *)
(* than 200), "error" (no answer: a network error or a timeout) and, for   *)
(* PageSpeed, "nodata" (a 200 answer without the metrics).                 *)
(* A response of status 500 is an exception no handler converted.          *)
(***************************************************************************)
Request(endpoint, url, primary_keyword, html, api_key) ==
    [endpoint |-> endpoint, url |-> url, primary_keyword |-> primary_keyword,
     html |-> html, api_key |-> api_key]

NoRequest == Request("none", Url(<<>>, <<>>, <<>>), <<>>, EmptyDoc, "unset")

NoResponse == [status |-> 0, body |-> [kind |-> "none"]]

\* return <value>
Ok(body) == [status |-> 200, body |-> body]

\* raise HTTPException(status_code=400, detail=...)
Error400(detail) == [status |-> 400, body |-> [kind |-> "error", detail |-> detail]]

\* an exception that leaves the handler
Unhandled == [status |-> 500, body |-> [kind |-> "exception"]]

Call(target) == [target |-> target, result |-> "pending", body |-> <<>>]

Outcome(result, body) == [result |-> result, body |-> body]

\* the call in progress, and the calls once it has ended with outcome o
Current == calls[Len(calls)]

Answered(o) ==
    [calls EXCEPT ![Len(calls)] =
        [target |-> Current.target, result |-> o.result, body |-> o.body]]

\* What requests.get / httpx.get can end with for a page: a URL without a
\* scheme is refused before anything is sent.
PageOutcomes(url) ==
    IF url.scheme = <<>> THEN {Outcome("error", <<>>)}
    ELSE {Outcome("ok", d) : d \in ServedDocs}
         \cup {Outcome("status", ErrorDoc), Outcome("error", <<>>)}

RobotsOutcomes(url) ==
    IF url.scheme = <<>> THEN {Outcome("error", <<>>)}
    ELSE {Outcome("ok", t) : t \in RobotsTexts}
         \cup {Outcome("status", <<>>), Outcome("error", <<>>)}

PsiOutcomes ==
    {Outcome("ok", d) : d \in PsiData}
    \cup {Outcome("nodata", <<>>), Outcome("status", <<>>), Outcome("error", <<>>)}

Init ==
    /\ pc = "idle"
    /\ req = NoRequest
    /\ calls = <<>>
    /\ resp = NoResponse

\* POST /analyze-seo (main.py 44-114): no outbound call, the report is the
\* response.  The except clause (a 400) is for what the parsers raise; none of
\* the documents and URLs of the model makes them raise.
AnalyzeSeo ==
    /\ pc = "idle"
    /\ \E html \in Docs, url \in PageUrls, primary_keyword \in Keywords :
          /\ req' = Request("analyze-seo", url, primary_keyword, html, "unset")
          /\ resp' = Ok(analyze_seo(html, url, primary_keyword))
    /\ pc' = "done"
    /\ UNCHANGED calls

\* A handler that starts with the fetch of a page or of robots.txt
StartFetch(endpoint, url, primary_keyword, target) ==
    /\ req' = Request(endpoint, url, primary_keyword, EmptyDoc, "unset")
    /\ calls' = <<Call(target)>>
    /\ pc' = "wait"
    /\ UNCHANGED resp

\* GET /fetch-page (main.py 23-34)
FetchPage ==
    /\ pc = "idle"
    /\ \E url \in PageUrls : StartFetch("fetch-page", url, <<>>, "page")

\* r.raise_for_status() and the except clause turn every failure into a 400
FetchPageReturn ==
    /\ pc = "wait" /\ req.endpoint = "fetch-page"
    /\ \E o \in PageOutcomes(req.url) :
          /\ calls' = Answered(o)
          /\ resp' = IF o.result = "ok"
                     THEN Ok([kind |-> "text", html |-> o.body])
                     ELSE Error400("fetch failed")
    /\ pc' = "done"
    /\ UNCHANGED req

\* POST /analyze-seo-url (main.py 126-136)
AnalyzeSeoUrl ==
    /\ pc = "idle"
    /\ \E url \in PageUrls, primary_keyword \in Keywords :
          StartFetch("analyze-seo-url", url, primary_keyword, "page")

\* No raise_for_status(): the body of an error status is analysed like a page.
\* No try: a failed request leaves the handler as an exception.
AnalyzeSeoUrlReturn ==
    /\ pc = "wait" /\ req.endpoint = "analyze-seo-url"
    /\ \E o \in PageOutcomes(req.url) :
          /\ calls' = Answered(o)
          /\ resp' = IF o.result = "error" THEN Unhandled
                     ELSE Ok(analyze_seo(o.body, req.url, req.primary_keyword))
    /\ pc' = "done"
    /\ UNCHANGED req

\* GET /robots-check (main.py 140-145)
RobotsCheck ==
    /\ pc = "idle"
    /\ \E url \in RobotsUrls : StartFetch("robots-check", url, <<>>, "robots.txt")

\* fetch_robots_txt (helpers.py 6-13) raises the 400 on every failure; the text
\* is matched against urlparse(url).path
RobotsCheckReturn ==
    /\ pc = "wait" /\ req.endpoint = "robots-check"
    /\ \E o \in RobotsOutcomes(req.url) :
          /\ calls' = Answered(o)
          /\ resp' = IF o.result = "ok"
                     THEN LET result == parse_robots(o.body, req.url.path)
                          IN  Ok([kind |-> "robots", robots_txt_present |-> TRUE,
                                  blocked |-> result.blocked,
                                  rules |-> result.rules])
                     ELSE Error400("robots.txt fetch failed")
    /\ pc' = "done"
    /\ UNCHANGED req

\* a faulty variant: only an unset variable counts as no credential
NoApiKey_UnsetOnly(api_key) == api_key = "unset"

\* not api_key
NoApiKey(api_key) == api_key \in {"unset", ""}

\* the order of the strategies, and the one tried after a strategy
Strategies == <<"mobile", "desktop">>

\* POST /web-vitals (main.py 153-158): without a credential the 400 is raised
\* before call_psi; with one, call_psi starts with the first strategy
WebVitals ==
    /\ pc = "idle"
    /\ \E url \in PageUrls, api_key \in ApiKeys :
          /\ req' = Request("web-vitals", url, <<>>, EmptyDoc, api_key)
          /\ IF NoApiKey(api_key)
             THEN /\ resp' = Error400("PSI_API_KEY env var not set")
                  /\ pc' = "done"
                  /\ UNCHANGED calls
             ELSE /\ calls' = <<Call(Strategies[1])>>
                  /\ pc' = "wait"
                  /\ UNCHANGED resp

\* call_psi (helpers.py 34-60): a 200 answer is returned, another status goes
\* on to the next strategy and, after the last, to the 400.  httpx.get is in no
\* try, and neither are the subscripts of the answer.
WebVitalsReturn ==
    /\ pc = "wait" /\ req.endpoint = "web-vitals"
    /\ \E o \in PsiOutcomes :
          LET strat == Current.target
          IN  CASE o.result = "ok" ->
                     /\ calls' = Answered(o)
                     /\ resp' = Ok([kind |-> "vitals", strategy |-> strat,
                                    lcp_ms |-> o.body.lcp_ms, cls |-> o.body.cls,
                                    inp_ms |-> o.body.inp_ms,
                                    score |-> o.body.score])
                     /\ pc' = "done"
                [] o.result = "status" /\ Len(calls) < Len(Strategies) ->
                     /\ calls' = Append(Answered(o), Call(Strategies[Len(calls) + 1]))
                     /\ UNCHANGED <<resp, pc>>
                [] o.result = "status" /\ Len(calls) = Len(Strategies) ->
                     /\ calls' = Answered(o)
                     /\ resp' = Error400("PSI failed on mobile and desktop")
                     /\ pc' = "done"
                [] OTHER ->
                     /\ calls' = Answered(o)
                     /\ resp' = Unhandled
                     /\ pc' = "done"
    /\ UNCHANGED req

\* POST /schema-audit (main.py 169-175)
SchemaAudit ==
    /\ pc = "idle"
    /\ \E url \in PageUrls : StartFetch("schema-audit", url, <<>>, "page")

\* extract_schema (helpers_schema.py 5-12): no raise_for_status(), so the body
\* of an error status is extracted from like a page; extruct either returns the
\* data or raises, and the handler's except clause turns every exception into
\* a 400
SchemaAuditReturn ==
    /\ pc = "wait" /\ req.endpoint = "schema-audit"
    /\ \E o \in PageOutcomes(req.url), extracted \in BOOLEAN :
          /\ calls' = Answered(o)
          /\ resp' = IF o.result # "error" /\ extracted
                     THEN Ok([kind |-> "schema", html |-> o.body])
                     ELSE Error400("schema extraction failed")
    /\ pc' = "done"
    /\ UNCHANGED req

\* the response is sent and the invocation's state is dropped
Respond ==
    /\ pc = "done"
    /\ pc' = "idle"
    /\ req' = NoRequest
    /\ calls' = <<>>
    /\ resp' = NoResponse

Next ==
    \/ AnalyzeSeo
    \/ FetchPage \/ FetchPageReturn
    \/ AnalyzeSeoUrl \/ AnalyzeSeoUrlReturn
    \/ RobotsCheck \/ RobotsCheckReturn
    \/ WebVitals \/ WebVitalsReturn
    \/ SchemaAudit \/ SchemaAuditReturn
    \/ Respond

Spec == Init /\ [][Next]_vars

(***************************************************************************)
(* The properties                                                          *)
(***************************************************************************)
\* an invocation of endpoint e has its response
Done(e) == pc = "done" /\ req.endpoint = e

\* the response is a report of analyze_seo, and the document it is about
HasReport == pc = "done" /\ resp.status = 200 /\ resp.body.kind = "report"

Analysed == IF req.endpoint = "analyze-seo" THEN req.html ELSE calls[1].body

\* the checklist of section 4.4, read off a report
Checklist(r) ==
    << r.title.present /\ r.title.includes_kw,
       r.meta.present /\ r.meta.includes_kw,
       r.h1.count = 1 /\ r.h1.includes_kw,
       r.kw_in_first_150,
       r.word_count >= 300,
       r.internal_links >= 3,
       r.images.missing_alt = 0,
       r.url_contains_kw >>

Satisfied(r) == Cardinality({i \in 1..8 : Checklist(r)[i]})

\* round-half-to-even of 100 * k / 8 for k = 0..8
ScoreTable == <<0, 12, 25, 38, 50, 62, 75, 88, 100>>

\* C1: whatever the eight predicates are, health_score is an integer in 0..100
\* and is round-half-to-even of 100 * k / 8, k the number of true predicates.
C1_HealthScore ==
    HasReport =>
        /\ resp.body.health_score \in 0..100
        /\ resp.body.health_score = ScoreTable[Satisfied(resp.body.report) + 1]

\* a report with five predicates true, where the half goes down to 62
C1_Witness == HasReport /\ Satisfied(resp.body.report) = 5

\* the normalized URL contains the normalized keyword (section 4.2)
UrlHasKeyword ==
    Contains(SelectSeq(Lower(req.primary_keyword), IsAlnum),
             SelectSeq(Lower(UrlString(req.url)), IsAlnum))

\* the presence flags of a report are false and its word count is 0
NothingPresent(r) ==
    /\ ~r.title.present /\ ~r.title.includes_kw
    /\ ~r.meta.present /\ ~r.meta.includes_kw
    /\ r.h1.count = 0 /\ ~r.h1.includes_kw
    /\ ~r.kw_in_first_150
    /\ r.word_count = 0

\* C2 as stated: for the empty document the flags are false, the word count is
\* 0, and the score is 0 unless the URL contains the keyword, and then 12.
C2_EmptyDocScoreOriginal ==
    (Done("analyze-seo") /\ req.html = EmptyDoc) =>
        /\ NothingPresent(resp.body.report)
        /\ resp.body.health_score = IF UrlHasKeyword THEN 12 ELSE 0

\* C2 amended: for the empty document the flags are false, the word count is 0,
\* and the score counts the URL predicate and the predicate "no image misses
\* its alt", which a document without images satisfies: 12 without the keyword
\* in the URL, 25 with it.
C2_EmptyDocScore ==
    (Done("analyze-seo") /\ req.html = EmptyDoc) =>
        /\ NothingPresent(resp.body.report)
        /\ resp.body.health_score = IF UrlHasKeyword THEN 25 ELSE 12

\* the empty document audited for a keyword that its URL contains
C2_Witness ==
    /\ Done("analyze-seo") /\ req.html = EmptyDoc
    /\ UrlHasKeyword /\ resp.body.health_score = 25

\* /robots-check has answered with the verdict on the text it fetched
RobotsDone == Done("robots-check") /\ resp.status = 200

\* the path has one of the returned rules as a prefix
SomeRuleIsPrefix ==
    \E i \in 1..Len(resp.body.rules) : StartsWith(req.url.path, resp.body.rules[i])

\* the lines of the fetched text that are Disallow lines with an empty value
EmptyDisallows ==
    {i \in 1..Len(calls[1].body) :
        IsDisallow(calls[1].body[i]) /\ DisallowValue(calls[1].body[i]) = <<>>}

\* C3 as stated: blocked is true exactly if the target path, the empty path
\* included, has one of the returned rules as a prefix.
C3_BlockedIffRulePrefixOriginal == RobotsDone => (resp.body.blocked <=> SomeRuleIsPrefix)

\* C3 amended: blocked is true exactly if the target path has one of the
\* returned rules as a prefix or the text has a Disallow line with an empty
\* value; for a path that begins with "/" that is exactly if it has one of the
\* returned rules as a prefix.
C3_BlockedIffRulePrefix ==
    RobotsDone =>
        /\ resp.body.blocked <=> (SomeRuleIsPrefix \/ EmptyDisallows # {})
        /\ StartsWith(req.url.path, <<"/">>) => (resp.body.blocked <=> SomeRuleIsPrefix)

\* the empty path against a text with an empty Disallow: blocked, although no
\* returned rule is a prefix of the path
C3_Witness ==
    /\ RobotsDone /\ req.url.path = <<>>
    /\ resp.body.blocked /\ ~SomeRuleIsPrefix

\* C4: a Disallow line with an empty or blank value puts the rule "/" at that
\* line's place among the rules, and blocked is true whatever the target path.
C4_EmptyDisallowBlocksAll ==
    RobotsDone =>
        \A i \in EmptyDisallows :
            /\ resp.body.rules[Count(SubSeq(calls[1].body, 1, i), IsDisallow)] = <<"/">>
            /\ resp.body.blocked

\* an empty Disallow after another rule, asked about the empty path
C4_Witness ==
    /\ RobotsDone /\ req.url.path = <<>>
    /\ \E i \in EmptyDisallows : Count(SubSeq(calls[1].body, 1, i), IsDisallow) = 2

\* the anchors of a document whose root domain is empty
Unresolved(doc) == Count(doc.anchors, LAMBDA a : short_domain(a) = <<>>)

\* C5 as stated: an anchor whose root domain is empty is counted neither as an
\* internal nor as an external link, whatever the page URL.
C5_UnresolvedLinksUncounted ==
    HasReport =>
        resp.body.report.internal_links + resp.body.report.external_links
            = Len(Analysed.anchors) - Unresolved(Analysed)

\* C6 as stated: an endpoint whose fetch ends in an error or in a status other
\* than 2xx answers with the 400 error, after that one call.
C6_FetchFailureIs400 ==
    ( /\ pc = "done"
      /\ req.endpoint \in {"fetch-page", "analyze-seo-url", "robots-check",
                           "schema-audit"}
      /\ calls[1].result \in {"status", "error"} )
    => (resp.status = 400 /\ Len(calls) = 1)

\* C7 as stated: with a credential, mobile is called first; the answer is
\* mobile's if it succeeded, else desktop is called and the answer is desktop's
\* if it succeeded, else the 400 error.
C7_MobileThenDesktop ==
    ( /\ Done("web-vitals") /\ req.api_key = "key"
      /\ \A i \in 1..Len(calls) : calls[i].result \in {"ok", "status", "error"} )
    => /\ calls[1].target = "mobile"
       /\ IF calls[1].result = "ok"
          THEN Len(calls) = 1 /\ resp.status = 200 /\ resp.body.strategy = "mobile"
          ELSE /\ Len(calls) = 2 /\ calls[2].target = "desktop"
               /\ IF calls[2].result = "ok"
                  THEN resp.status = 200 /\ resp.body.strategy = "desktop"
                  ELSE resp.status = 400

\* C8: without a credential (unset or empty) /web-vitals ends with the 400
\* error and the invocation makes no outbound call.
C8_NoKeyNoCall ==
    (req.endpoint = "web-vitals" /\ req.api_key \in {"unset", ""})
    => (calls = <<>> /\ pc = "done" /\ resp.status = 400)

\* /web-vitals answered while PSI_API_KEY is set to the empty string
C8_Witness == Done("web-vitals") /\ req.api_key = "" /\ resp.status = 400

\* C9: the counts of a report are not negative, the h1 count is the number of
\* h1 elements, and no more images miss their alt than there are images.
C9_CountsConsistent ==
    HasReport =>
        LET r == resp.body.report
        IN  /\ \A n \in {r.title.length, r.meta.length, r.h1.count, r.word_count,
                         r.internal_links, r.external_links, r.images.total,
                         r.images.missing_alt} : n >= 0
            /\ r.h1.count = Count(Analysed.texts, LAMBDA n : n.tag = "h1")
            /\ r.images.missing_alt <= r.images.total

\* a page with an h1, an external link and two images of which one has no alt
C9_Witness ==
    /\ HasReport /\ resp.body.report.h1.count = 1
    /\ resp.body.report.external_links >= 1
    /\ resp.body.report.images.total = 2
    /\ resp.body.report.images.missing_alt = 1

\* C10 as stated: a link to "www." + h has the root domain of the page at host
\* h, whatever the schemes and paths, and a URL without a host has the empty
\* root domain.
C10_WwwSameRootDomain ==
    Done("analyze-seo") =>
        /\ req.url.host = <<>> => short_domain(req.url) = <<>>
        /\ \A i \in 1..Len(req.html.anchors) :
              LET a == req.html.anchors[i]
              IN  /\ a.host = <<>> => short_domain(a) = <<>>
                  /\ (req.url.host # <<>> /\ Hostname(a) = <<"w","w","w",".">> \o Hostname(req.url))
                        => short_domain(a) = short_domain(req.url)

====
